---- MODULE Spec2Model ----
(***************************************************************************)
(* TradeSmart: order and ledger execution.                                 *)
(*                                                                         *)
(* Two execution paths of the repository share one store:                  *)
(*   - the in-memory mock store of frontend/js/api.js (USE_MOCK = true),   *)
(*     where buyStock/sellStock create PENDING orders that a later         *)
(*     executePendingOrders pass settles;                                  *)
(*   - the Express/PostgreSQL backend (USE_MOCK = false), where each       *)
(*     request handler is a sequence of awaited SQL statements that        *)
(*     interleave with the statements of other requests.                   *)
(* Money is kept in integer cents, share counts are whole numbers.         *)
(***************************************************************************)
EXTENDS Integers, Sequences, FiniteSets, TLC

(* ------------------------------ bounds --------------------------------- *)
\* number of backend requests that may be in flight in one behaviour
NProcs == 2
\* length bound of the order table
MaxOrders == 2
\* length bound of the transaction log
MaxTx == 3

(* ------------------------- input domains ------------------------------- *)
UserIds == {"u1001", "u2002"}
Tickers == {"AAPL", "MSFT"}
\* tickers that requests name (MSFT stays a seeded, untouched position)
TradeTickers == {"AAPL"}
\* share quantities a request may carry
Quantities == {5, 15}
\* deposit / withdraw amounts, in cents
Amounts == {950000, 2000000}
\* quotes the price feed may publish for a ticker, in cents
Quotes(t) == IF t = "AAPL" THEN {18234, 17500} ELSE {40522}
Procs == 1..NProcs
NoProc == 0

(* --------------------------- seed data --------------------------------- *)
mockStocks == [t \in Tickers |-> IF t = "AAPL" THEN 18234 ELSE 40522]
mockUsers == [u \in {"u1001"} |-> 1000000]
SeedHoldings == [t \in {"AAPL", "MSFT"} |->
                   IF t = "AAPL" THEN [shares |-> 10, avgCost |-> 17500]
                                 ELSE [shares |-> 5, avgCost |-> 39000]]
NoHoldings == [t \in {} |-> [shares |-> 0, avgCost |-> 0]]
mockHoldings == [u \in UserIds |-> IF u = "u1001" THEN SeedHoldings ELSE NoHoldings]
mockTransactions == << [userId |-> "u1001", type |-> "BUY", ticker |-> "AAPL", shares |-> 10,
                        price |-> 17500, total |-> 175000, status |-> "EXECUTED"] >>
mockOrders == << >>
\* market_config row: minutes after midnight, weekdays_only flag
mockMarketConfig == [open_time |-> 570, close_time |-> 960, weekdays_only |-> TRUE]
\* instants the wall clock takes in the ledger specification: [weekday, minute of day]
ClockInstants == { [weekday |-> 5, minute |-> 600], [weekday |-> 5, minute |-> 961] }

(* ----------------------------- helpers --------------------------------- *)
\* Number(x.toFixed(2)) of the quotient num/den of two cent amounts: nearest cent
ToFixed2(num, den) == (2 * num + den) \div (2 * den)

(* Number(x) of a request body can be NaN (Number("abc")) or Infinity      *)
(* (Number("1e999")); the two are kept as reserved integers outside the    *)
(* range of every amount, and every test on them is written out.           *)
NaN == -2147483647
Infinity == 2147483647

\* Number.isFinite(x)
IsFinite(x) == x \notin {NaN, Infinity}

\* !x  for a number x
Falsy(x) == x = 0 \/ x = NaN

\* x <= 0  (false for NaN)
NotPositive(x) == x # NaN /\ x <= 0

\* backend test on Number(shares) / Number(amount):  !x || x <= 0
InvalidAmount(x) == Falsy(x) \/ NotPositive(x)

\* mock test:  !Number.isFinite(x) || x <= 0
InvalidShares(x) == ~IsFinite(x) \/ NotPositive(x)

\* price * qty  with a positive finite price
Times(a, b) == IF b = Infinity THEN Infinity ELSE a * b

\* the cash column is a two-decimal money column: it holds finite values only
CashColumnHolds(x) == IsFinite(x)

\* market.js: weekend gate, then openTime <= now <= closeTime
\* variant: the closing minute itself is outside the hours
marketStatusNow_CloseExclusive(cfg, now) ==
  IF cfg.weekdays_only /\ (now.weekday = 6 \/ now.weekday = 7)
    THEN [open |-> FALSE, reason |-> "Weekend"]
    ELSE LET open == now.minute >= cfg.open_time /\ now.minute < cfg.close_time
         IN [open |-> open, reason |-> IF open THEN "Open" ELSE "Outside market hours"]

\* variant: only Saturday counts as weekend
marketStatusNow_SaturdayOnly(cfg, now) ==
  IF cfg.weekdays_only /\ now.weekday = 6
    THEN [open |-> FALSE, reason |-> "Weekend"]
    ELSE LET open == now.minute >= cfg.open_time /\ now.minute <= cfg.close_time
         IN [open |-> open, reason |-> IF open THEN "Open" ELSE "Outside market hours"]

marketStatusNow(cfg, now) ==
  IF cfg.weekdays_only /\ (now.weekday = 6 \/ now.weekday = 7)
    THEN [open |-> FALSE, reason |-> "Weekend"]
    ELSE LET open == now.minute >= cfg.open_time /\ now.minute <= cfg.close_time
         IN [open |-> open, reason |-> IF open THEN "Open" ELSE "Outside market hours"]

VARIABLES
  useMock,    \* CONFIG.USE_MOCK: which execution path serves the requests
  cash,       \* users.cash / mockUsers[].cash : existing user id -> cents
  holdings,   \* holdings rows / mockUsers[].holdings : user -> (ticker -> [shares, avgCost])
  price,      \* stocks.price / mockStocks[].price
  orders,     \* orders table / mockOrders
  txs,        \* transactions table / mockTransactions
  now,        \* wall clock read by the market clock
  market,     \* market_config row / mockMarketConfig: hours and schedule
  last,       \* outcome of the latest mock API call
  pc,         \* backend request: position in its handler
  req,        \* backend request: parameters
  loc,        \* backend request: handler locals and uncommitted writes
  res,        \* backend request: response
  lockU,      \* row lock on users(user_id): holder or NoProc
  lockH       \* row lock on holdings(user_id, ticker): holder or NoProc

store == << cash, holdings, orders, txs >>
env == << useMock, price, now, market >>
backend == << pc, req, loc, res, lockU, lockH >>
vars == << useMock, cash, holdings, price, orders, txs, now, market, last, pc, req, loc, res, lockU, lockH >>

NoReq == [op |-> "none", userId |-> "u1001", ticker |-> "AAPL", n |-> 0]
NoLoc == [cash |-> 0, price |-> 0, total |-> 0, owned |-> 0]
Outcome(op, u, n, result) == [op |-> op, userId |-> u, n |-> n, result |-> result]
NoLast == Outcome("none", "u1001", 0, "none")

Init ==
  /\ useMock \in BOOLEAN
  /\ cash = mockUsers
  /\ holdings = mockHoldings
  /\ price = mockStocks
  /\ orders = mockOrders
  /\ txs = mockTransactions
  /\ now \in ClockInstants
  /\ market = mockMarketConfig
  /\ last = NoLast
  /\ pc = [p \in Procs |-> "idle"]
  /\ req = [p \in Procs |-> NoReq]
  /\ loc = [p \in Procs |-> NoLoc]
  /\ res = [p \in Procs |-> "none"]
  /\ lockU = [u \in UserIds |-> NoProc]
  /\ lockH = [k \in UserIds \X Tickers |-> NoProc]

(* --------------------------- environment ------------------------------- *)
\* the price feed publishes another quote for a ticker
QuoteMove ==
  /\ \E t \in Tickers : \E q \in Quotes(t) :
       /\ q # price[t]
       /\ price' = [price EXCEPT ![t] = q]
  /\ UNCHANGED << useMock, cash, holdings, orders, txs, now, market, last, backend >>

\* the wall clock advances to a later instant
Tick ==
  /\ \E i \in ClockInstants :
       /\ i.weekday > now.weekday \/ (i.weekday = now.weekday /\ i.minute > now.minute)
       /\ now' = i
  /\ UNCHANGED << useMock, cash, holdings, price, orders, txs, market, last, backend >>

(* --------------------------- ledger rules ------------------------------ *)
\* variant: the affordability test is missing
InsufficientCash_Unchecked(c, amount) == FALSE

\* variant: the test looks at the sign of the balance only
InsufficientCash_SignOnly(c, amount) == c < 0

\* the affordability test of buy and withdraw: cash < totalCost, cash < amount
\* variant: the whole balance cannot be spent
InsufficientCash_Strict(c, amount) == c <= amount

InsufficientCash(c, amount) == c < amount

\* the availability test of sell: no holding row, or owned < qty
InsufficientShares(h, t, q) == t \notin DOMAIN h \/ h[t].shares < q

(* ------------------------- holdings updates ---------------------------- *)
\* variant: the average cost is overwritten with the latest price
BuyHoldings_LastPrice(h, t, q, p) ==
  [x \in DOMAIN h \cup {t} |->
     IF x = t THEN [shares |-> (IF t \in DOMAIN h THEN h[t].shares ELSE 0) + q, avgCost |-> p]
              ELSE h[x]]

\* holdings of one user after a buy of q shares at price p settles
BuyHoldings(h, t, q, p) ==
  IF t \in DOMAIN h
    THEN LET newTotalShares == h[t].shares + q
             newAvgCost == ToFixed2(h[t].avgCost * h[t].shares + p * q, newTotalShares)
         IN [h EXCEPT ![t] = [shares |-> newTotalShares, avgCost |-> newAvgCost]]
    ELSE [x \in DOMAIN h \cup {t} |->
            IF x = t THEN [shares |-> q, avgCost |-> p] ELSE h[x]]

\* variant: the holding is dropped by every sell
SellHoldings_DropsAlways(h, t, q) == [x \in DOMAIN h \ {t} |-> h[x]]

\* variant: the emptied holding is not deleted
SellHoldings_KeepsEmpty(h, t, q) == [h EXCEPT ![t].shares = h[t].shares - q]

\* holdings of one user after a sell of q shares settles
SellHoldings(h, t, q) ==
  LET left == h[t].shares - q
  IN IF left = 0
       THEN [x \in DOMAIN h \ {t} |-> h[x]]
       ELSE [h EXCEPT ![t].shares = left]

Tx(u, type, t, q, p, total, status) ==
  [userId |-> u, type |-> type, ticker |-> t, shares |-> q,
   price |-> p, total |-> total, status |-> status]

Order(u, type, t, q, p, status) ==
  [userId |-> u, type |-> type, ticker |-> t, shares |-> q,
   status |-> status, priceAtRequest |-> p]

(* --------------------------- cancel rules ------------------------------ *)
\* variant: the total of the CANCEL record is taken at the current quote
CancelTotal_CurrentQuote(o) == ToFixed2(o.shares * price[o.ticker], 1)

\* total of the CANCEL record: Number((order.shares * order.priceAtRequest).toFixed(2))
CancelTotal(o) == ToFixed2(o.shares * o.priceAtRequest, 1)

\* variant: only executed orders are protected from cancel
Cancelable_NotExecuted(o) == o.status # "EXECUTED"

\* the test both cancel paths make before changing the order: status is PENDING
Cancelable(o) == o.status = "PENDING"

(* ------------------------ mock store (api.js) -------------------------- *)
MockFrame == UNCHANGED << useMock, price, now, market, backend >>

buyStock(u, t, q) ==
  /\ useMock
  /\ LET cost == ToFixed2(q * price[t], 1) IN
     IF u \notin DOMAIN cash
       THEN /\ last' = Outcome("buy", u, q, "NotFound")
            /\ UNCHANGED store
     ELSE IF InvalidShares(q)
       THEN /\ last' = Outcome("buy", u, q, "InvalidArgument")
            /\ UNCHANGED store
     ELSE IF InsufficientCash(cash[u], cost)
       THEN /\ last' = Outcome("buy", u, q, "InsufficientFunds")
            /\ UNCHANGED store
     ELSE /\ Len(orders) < MaxOrders
          /\ orders' = Append(orders, Order(u, "BUY", t, q, price[t], "PENDING"))
          /\ last' = Outcome("buy", u, q, "PENDING")
          /\ UNCHANGED << cash, holdings, txs >>
  /\ MockFrame

\* variant: the sell is written to the transaction log when it is placed
sellStock_LogsAtPlacement(u, t, q) ==
  /\ useMock
  /\ IF u \notin DOMAIN cash
       THEN /\ last' = Outcome("sell", u, q, "NotFound")
            /\ UNCHANGED store
     ELSE IF InvalidShares(q)
       THEN /\ last' = Outcome("sell", u, q, "InvalidArgument")
            /\ UNCHANGED store
     ELSE IF InsufficientShares(holdings[u], t, q)
       THEN /\ last' = Outcome("sell", u, q, "InsufficientShares")
            /\ UNCHANGED store
     ELSE /\ Len(orders) < MaxOrders
          /\ Len(txs) < MaxTx
          /\ orders' = Append(orders, Order(u, "SELL", t, q, price[t], "PENDING"))
          /\ txs' = Append(txs, Tx(u, "SELL", t, q, price[t], ToFixed2(q * price[t], 1), "EXECUTED"))
          /\ last' = Outcome("sell", u, q, "PENDING")
          /\ UNCHANGED << cash, holdings >>
  /\ MockFrame

sellStock(u, t, q) ==
  /\ useMock
  /\ IF u \notin DOMAIN cash
       THEN /\ last' = Outcome("sell", u, q, "NotFound")
            /\ UNCHANGED store
     ELSE IF InvalidShares(q)
       THEN /\ last' = Outcome("sell", u, q, "InvalidArgument")
            /\ UNCHANGED store
     ELSE IF InsufficientShares(holdings[u], t, q)
       THEN /\ last' = Outcome("sell", u, q, "InsufficientShares")
            /\ UNCHANGED store
     ELSE /\ Len(orders) < MaxOrders
          /\ orders' = Append(orders, Order(u, "SELL", t, q, price[t], "PENDING"))
          /\ last' = Outcome("sell", u, q, "PENDING")
          /\ UNCHANGED << cash, holdings, txs >>
  /\ MockFrame

\* variant: cancel pays the order's total back to the account
cancelOrder_Refunds(i) ==
  /\ useMock
  /\ IF i \notin DOMAIN orders
       THEN /\ last' = Outcome("cancel", "u1001", i, "NotFound")
            /\ UNCHANGED store
     ELSE IF ~Cancelable(orders[i])
       THEN /\ last' = Outcome("cancel", "u1001", i, "InvalidState")
            /\ UNCHANGED store
     ELSE /\ Len(txs) < MaxTx
          /\ orders' = [orders EXCEPT ![i].status = "CANCELED"]
          /\ txs' = Append(txs, Tx(orders[i].userId, "CANCEL", orders[i].ticker, orders[i].shares,
                                   orders[i].priceAtRequest, CancelTotal(orders[i]), "CANCELED"))
          /\ last' = Outcome("cancel", "u1001", i, "CANCELED")
          /\ cash' = [cash EXCEPT ![orders[i].userId] = @ + CancelTotal(orders[i])]
          /\ UNCHANGED holdings
  /\ MockFrame

cancelOrder(i) ==
  /\ useMock
  /\ IF i \notin DOMAIN orders
       THEN /\ last' = Outcome("cancel", "u1001", i, "NotFound")
            /\ UNCHANGED store
     ELSE IF ~Cancelable(orders[i])
       THEN /\ last' = Outcome("cancel", "u1001", i, "InvalidState")
            /\ UNCHANGED store
     ELSE /\ Len(txs) < MaxTx
          /\ orders' = [orders EXCEPT ![i].status = "CANCELED"]
          /\ txs' = Append(txs, Tx(orders[i].userId, "CANCEL", orders[i].ticker, orders[i].shares,
                                   orders[i].priceAtRequest, CancelTotal(orders[i]), "CANCELED"))
          /\ last' = Outcome("cancel", "u1001", i, "CANCELED")
          /\ UNCHANGED << cash, holdings >>
  /\ MockFrame

\* variant: the record is put at the head of the log (unshift instead of push)
depositCash_Unshift(u, a) ==
  /\ useMock
  /\ IF u \notin DOMAIN cash
       THEN /\ last' = Outcome("deposit", u, a, "NotFound")
            /\ UNCHANGED store
     ELSE IF InvalidShares(a)
       THEN /\ last' = Outcome("deposit", u, a, "InvalidArgument")
            /\ UNCHANGED store
     ELSE /\ Len(txs) < MaxTx
          /\ cash' = [cash EXCEPT ![u] = ToFixed2(cash[u] + a, 1)]
          /\ txs' = << Tx(u, "DEPOSIT", "CASH", 0, a, a, "EXECUTED") >> \o txs
          /\ last' = Outcome("deposit", u, a, "OK")
          /\ UNCHANGED << holdings, orders >>
  /\ MockFrame

depositCash(u, a) ==
  /\ useMock
  /\ IF u \notin DOMAIN cash
       THEN /\ last' = Outcome("deposit", u, a, "NotFound")
            /\ UNCHANGED store
     ELSE IF InvalidShares(a)
       THEN /\ last' = Outcome("deposit", u, a, "InvalidArgument")
            /\ UNCHANGED store
     ELSE /\ Len(txs) < MaxTx
          /\ cash' = [cash EXCEPT ![u] = ToFixed2(cash[u] + a, 1)]
          /\ txs' = Append(txs, Tx(u, "DEPOSIT", "CASH", 0, a, a, "EXECUTED"))
          /\ last' = Outcome("deposit", u, a, "OK")
          /\ UNCHANGED << holdings, orders >>
  /\ MockFrame

withdrawCash(u, a) ==
  /\ useMock
  /\ IF u \notin DOMAIN cash
       THEN /\ last' = Outcome("withdraw", u, a, "NotFound")
            /\ UNCHANGED store
     ELSE IF InvalidShares(a)
       THEN /\ last' = Outcome("withdraw", u, a, "InvalidArgument")
            /\ UNCHANGED store
     ELSE IF InsufficientCash(cash[u], a)
       THEN /\ last' = Outcome("withdraw", u, a, "InsufficientFunds")
            /\ UNCHANGED store
     ELSE /\ Len(txs) < MaxTx
          /\ cash' = [cash EXCEPT ![u] = ToFixed2(cash[u] - a, 1)]
          /\ txs' = Append(txs, Tx(u, "WITHDRAW", "CASH", 0, a, a, "EXECUTED"))
          /\ last' = Outcome("withdraw", u, a, "OK")
          /\ UNCHANGED << holdings, orders >>
  /\ MockFrame

\* variant: an order without cover is skipped and stays PENDING
ExecuteOne_SkipsUncovered(st, i) ==
  LET order == st.orders[i]
      t == order.ticker
      q == order.shares
      total == ToFixed2(q * price[t], 1)
  IN IF order.type = "BUY"
       THEN IF ~InsufficientCash(st.cash, total)
              THEN [cash |-> ToFixed2(st.cash - total, 1),
                    holdings |-> BuyHoldings(st.holdings, t, q, price[t]),
                    orders |-> [st.orders EXCEPT ![i].status = "EXECUTED"],
                    txs |-> Append(st.txs, Tx(order.userId, "BUY", t, q, price[t], total, "EXECUTED"))]
              ELSE st
       ELSE IF ~InsufficientShares(st.holdings, t, q)
              THEN [cash |-> ToFixed2(st.cash + total, 1),
                    holdings |-> SellHoldings(st.holdings, t, q),
                    orders |-> [st.orders EXCEPT ![i].status = "EXECUTED"],
                    txs |-> Append(st.txs, Tx(order.userId, "SELL", t, q, price[t], total, "EXECUTED"))]
              ELSE st

\* one iteration of the forEach of executePendingOrders on the ledger st of the user
ExecuteOne(st, i) ==
  LET order == st.orders[i]
      t == order.ticker
      q == order.shares
      total == ToFixed2(q * price[t], 1)
      reject == [st EXCEPT !.orders[i].status = "REJECTED"]
  IN IF order.type = "BUY"
       THEN IF ~InsufficientCash(st.cash, total)
              THEN [cash |-> ToFixed2(st.cash - total, 1),
                    holdings |-> BuyHoldings(st.holdings, t, q, price[t]),
                    orders |-> [st.orders EXCEPT ![i].status = "EXECUTED"],
                    txs |-> Append(st.txs, Tx(order.userId, "BUY", t, q, price[t], total, "EXECUTED"))]
              ELSE reject
       ELSE IF ~InsufficientShares(st.holdings, t, q)
              THEN [cash |-> ToFixed2(st.cash + total, 1),
                    holdings |-> SellHoldings(st.holdings, t, q),
                    orders |-> [st.orders EXCEPT ![i].status = "EXECUTED"],
                    txs |-> Append(st.txs, Tx(order.userId, "SELL", t, q, price[t], total, "EXECUTED"))]
              ELSE reject

\* the forEach over the pending orders of user u, from index i on, in placement order
RECURSIVE ExecuteFrom(_, _, _)
ExecuteFrom(st, u, i) ==
  IF i > Len(st.orders) THEN st
  ELSE IF orders[i].userId = u /\ orders[i].status = "PENDING"
    THEN ExecuteFrom(ExecuteOne(st, i), u, i + 1)
    ELSE ExecuteFrom(st, u, i + 1)

executePendingOrders(u) ==
  /\ useMock
  /\ IF u \notin DOMAIN cash
       THEN /\ last' = Outcome("execute", u, 0, "NotFound")
            /\ UNCHANGED store
     ELSE LET st == ExecuteFrom([cash |-> cash[u], holdings |-> holdings[u],
                                 orders |-> orders, txs |-> txs], u, 1)
          IN /\ Len(st.txs) <= MaxTx
             /\ cash' = [cash EXCEPT ![u] = st.cash]
             /\ holdings' = [holdings EXCEPT ![u] = st.holdings]
             /\ orders' = st.orders
             /\ txs' = st.txs
             /\ last' = Outcome("execute", u, 0, "OK")
  /\ MockFrame

MockNext ==
  \/ \E u \in UserIds, t \in TradeTickers, q \in Quantities : buyStock(u, t, q)
  \/ \E u \in UserIds, t \in TradeTickers, q \in Quantities : sellStock(u, t, q)
  \/ \E i \in 1..MaxOrders : cancelOrder(i)
  \/ \E u \in UserIds, a \in Amounts : depositCash(u, a)
  \/ \E u \in UserIds, a \in Amounts : withdrawCash(u, a)
  \/ \E u \in UserIds : executePendingOrders(u)

(* ------------------------------ reads ---------------------------------- *)
Reverse(s) == [i \in 1..Len(s) |-> s[Len(s) + 1 - i]]

\* the records of account u, in the order they were appended
TxOf(u) == SelectSeq(txs, LAMBDA t : t.userId = u)

\* getTransactions(userId): the mock answers mockTransactions.filter(..); the
\* backend answers SELECT .. WHERE user_id=$1 ORDER BY timestamp DESC, the
\* timestamp of a record being the instant it was appended
getTransactions(u) == IF useMock THEN TxOf(u) ELSE Reverse(TxOf(u))

(* ---------------- backend (Express handlers over PostgreSQL) ----------- *)
\* Every awaited statement of a handler is one step.  Statements that touch
\* only rows the transaction already holds, or rows it alone can see, are
\* taken together with the next statement that can wait or be observed.
\* Rows written inside BEGIN..COMMIT stay invisible to other requests until
\* COMMIT and keep their row lock until COMMIT or ROLLBACK.

BackendFrame == UNCHANGED << useMock, price, now, market, last >>

\* requests are interchangeable: slot p is used only after slot p-1
CanStart(p) == pc[p] = "idle" /\ (IF p = 1 THEN TRUE ELSE pc[p - 1] # "idle")

\* ROLLBACK / COMMIT / autocommit end: drop every row lock of p
ReleaseU(p) == [u \in UserIds |-> IF lockU[u] = p THEN NoProc ELSE lockU[u]]
ReleaseH(p) == [k \in UserIds \X Tickers |-> IF lockH[k] = p THEN NoProc ELSE lockH[k]]

\* the handler answers without having changed anything (early return after ROLLBACK)
Reply(p, r) ==
  /\ pc' = [pc EXCEPT ![p] = "done"]
  /\ res' = [res EXCEPT ![p] = r]
  /\ lockU' = ReleaseU(p)
  /\ lockH' = ReleaseH(p)
  /\ loc' = [loc EXCEPT ![p] = NoLoc]
  /\ UNCHANGED << store, req >>

\* the first lines of a handler on request r: the test of Number(shares) /
\* Number(amount), then, for POST /orders/buy and /orders/sell,
\* const market = await marketStatusNow()
Arrive(p, r) ==
  /\ req' = [req EXCEPT ![p] = r]
  /\ IF r.op # "cancel" /\ InvalidAmount(r.n)
       THEN /\ pc' = [pc EXCEPT ![p] = "done"]
            /\ res' = [res EXCEPT ![p] = "InvalidArgument"]
     ELSE IF r.op \in {"buy", "sell"} /\ ~marketStatusNow(market, now).open
       THEN /\ pc' = [pc EXCEPT ![p] = "done"]
            /\ res' = [res EXCEPT ![p] = "MarketClosed"]
     ELSE /\ pc' = [pc EXCEPT ![p] =
                      CASE r.op = "buy" -> "b_lock"
                        [] r.op = "sell" -> "s_lock"
                        [] r.op = "deposit" -> "d_ensure"
                        [] r.op = "withdraw" -> "w_lock"
                        [] OTHER -> "c_select"]
          /\ UNCHANGED res
  /\ UNCHANGED << store, loc, lockU, lockH >>
  /\ BackendFrame

\* a request arrives at an endpoint
Start(p) ==
  /\ ~useMock
  /\ CanStart(p)
  /\ \E r \in [op : {"buy", "sell"}, userId : UserIds, ticker : TradeTickers, n : Quantities]
          \cup [op : {"deposit", "withdraw"}, userId : UserIds, ticker : {"CASH"}, n : Amounts]
          \cup [op : {"cancel"}, userId : {"u1001"}, ticker : {"CASH"}, n : {1}] :
       Arrive(p, r)

\* buy: BEGIN; SELECT cash FROM users WHERE user_id=$1 FOR UPDATE
BuyLockUser(p) ==
  /\ pc[p] = "b_lock"
  /\ LET u == req[p].userId IN
     IF u \notin DOMAIN cash
       THEN Reply(p, "NotFound")
       ELSE /\ lockU[u] = NoProc
            /\ lockU' = [lockU EXCEPT ![u] = p]
            /\ loc' = [loc EXCEPT ![p].cash = cash[u]]
            /\ pc' = [pc EXCEPT ![p] = "b_price"]
            /\ UNCHANGED << store, req, res, lockH >>
  /\ BackendFrame

\* buy: SELECT price FROM stocks; totalCost = price * qty; if (cash < totalCost) 400;
\* INSERT INTO orders (..'PENDING'..); UPDATE users SET cash = cash - totalCost
\* variant: the debit is written outside the transaction (visible at once)
BuyReadPrice_Autocommit(p) ==
  /\ pc[p] = "b_price"
  /\ LET totalCost == Times(price[req[p].ticker], req[p].n) IN
     IF InsufficientCash(loc[p].cash, totalCost)
       THEN Reply(p, "InsufficientFunds")
       ELSE /\ loc' = [loc EXCEPT ![p].price = price[req[p].ticker],
                                  ![p].total = totalCost,
                                  ![p].cash = cash[req[p].userId] - totalCost]
            /\ cash' = [cash EXCEPT ![req[p].userId] = @ - totalCost]
            /\ pc' = [pc EXCEPT ![p] = "b_hold"]
            /\ UNCHANGED << holdings, orders, txs, req, res, lockU, lockH >>
  /\ BackendFrame

BuyReadPrice(p) ==
  /\ pc[p] = "b_price"
  /\ LET totalCost == Times(price[req[p].ticker], req[p].n) IN
     IF InsufficientCash(loc[p].cash, totalCost)
       THEN Reply(p, "InsufficientFunds")
       ELSE /\ loc' = [loc EXCEPT ![p].price = price[req[p].ticker],
                                  ![p].total = totalCost,
                                  ![p].cash = cash[req[p].userId] - totalCost]
            /\ pc' = [pc EXCEPT ![p] = "b_hold"]
            /\ UNCHANGED << store, req, res, lockU, lockH >>
  /\ BackendFrame

\* buy: INSERT INTO holdings .. ON CONFLICT (user_id, ticker) DO UPDATE ..
\* waits while another transaction holds the row
BuyUpsertHolding(p) ==
  /\ pc[p] = "b_hold"
  /\ LET k == << req[p].userId, req[p].ticker >> IN
       /\ lockH[k] \in {NoProc, p}
       /\ lockH' = [lockH EXCEPT ![k] = p]
  /\ pc' = [pc EXCEPT ![p] = "b_commit"]
  /\ UNCHANGED << store, req, loc, res, lockU >>
  /\ BackendFrame

\* buy: INSERT INTO transactions; UPDATE orders SET status='EXECUTED'; COMMIT
\* variant: the order is committed without  UPDATE orders SET status='EXECUTED'
BuyCommit_LeavesPending(p) ==
  /\ pc[p] = "b_commit"
  /\ LET u == req[p].userId
         t == req[p].ticker
         q == req[p].n
     IN /\ cash' = [cash EXCEPT ![u] = loc[p].cash]
        /\ holdings' = [holdings EXCEPT ![u] = BuyHoldings(holdings[u], t, q, loc[p].price)]
        /\ orders' = Append(orders, Order(u, "BUY", t, q, loc[p].price, "PENDING"))
        /\ txs' = Append(txs, Tx(u, "BUY", t, q, loc[p].price, loc[p].total, "EXECUTED"))
  /\ pc' = [pc EXCEPT ![p] = "done"]
  /\ res' = [res EXCEPT ![p] = "OK"]
  /\ lockU' = ReleaseU(p)
  /\ lockH' = ReleaseH(p)
  /\ loc' = [loc EXCEPT ![p] = NoLoc]
  /\ UNCHANGED req
  /\ BackendFrame

BuyCommit(p) ==
  /\ pc[p] = "b_commit"
  /\ LET u == req[p].userId
         t == req[p].ticker
         q == req[p].n
     IN /\ cash' = [cash EXCEPT ![u] = loc[p].cash]
        /\ holdings' = [holdings EXCEPT ![u] = BuyHoldings(holdings[u], t, q, loc[p].price)]
        /\ orders' = Append(orders, Order(u, "BUY", t, q, loc[p].price, "EXECUTED"))
        /\ txs' = Append(txs, Tx(u, "BUY", t, q, loc[p].price, loc[p].total, "EXECUTED"))
  /\ pc' = [pc EXCEPT ![p] = "done"]
  /\ res' = [res EXCEPT ![p] = "OK"]
  /\ lockU' = ReleaseU(p)
  /\ lockH' = ReleaseH(p)
  /\ loc' = [loc EXCEPT ![p] = NoLoc]
  /\ UNCHANGED req
  /\ BackendFrame

\* sell: BEGIN; SELECT shares FROM holdings WHERE user_id=$1 AND ticker=$2 FOR UPDATE
SellLockHolding(p) ==
  /\ pc[p] = "s_lock"
  /\ LET u == req[p].userId
         t == req[p].ticker
     IN IF t \notin DOMAIN holdings[u]
          THEN Reply(p, "InsufficientShares")
          ELSE /\ lockH[<< u, t >>] = NoProc
               /\ IF InsufficientShares(holdings[u], t, req[p].n)
                    THEN Reply(p, "InsufficientShares")
                    ELSE /\ lockH' = [lockH EXCEPT ![<< u, t >>] = p]
                         /\ loc' = [loc EXCEPT ![p].owned = holdings[u][t].shares]
                         /\ pc' = [pc EXCEPT ![p] = "s_price"]
                         /\ UNCHANGED << store, req, res, lockU >>
  /\ BackendFrame

\* sell: SELECT price FROM stocks; proceeds = price * qty; INSERT INTO orders;
\* UPDATE holdings SET shares = shares - qty; DELETE FROM holdings .. AND shares=0
SellReadPrice(p) ==
  /\ pc[p] = "s_price"
  /\ loc' = [loc EXCEPT ![p].price = price[req[p].ticker],
                        ![p].total = price[req[p].ticker] * req[p].n]
  /\ pc' = [pc EXCEPT ![p] = "s_cash"]
  /\ UNCHANGED << store, req, res, lockU, lockH >>
  /\ BackendFrame

\* sell: UPDATE users SET cash = cash + proceeds; waits while another
\* transaction holds the users row
SellCredit(p) ==
  /\ pc[p] = "s_cash"
  /\ LET u == req[p].userId IN
       /\ lockU[u] \in {NoProc, p}
       /\ lockU' = [lockU EXCEPT ![u] = p]
       /\ loc' = [loc EXCEPT ![p].cash = cash[u] + loc[p].total]
  /\ pc' = [pc EXCEPT ![p] = "s_commit"]
  /\ UNCHANGED << store, req, res, lockH >>
  /\ BackendFrame

\* sell: INSERT INTO transactions; UPDATE orders SET status='EXECUTED'; COMMIT
SellCommit(p) ==
  /\ pc[p] = "s_commit"
  /\ LET u == req[p].userId
         t == req[p].ticker
         q == req[p].n
     IN /\ cash' = [cash EXCEPT ![u] = loc[p].cash]
        /\ holdings' = [holdings EXCEPT ![u] = SellHoldings(holdings[u], t, q)]
        /\ orders' = Append(orders, Order(u, "SELL", t, q, loc[p].price, "EXECUTED"))
        /\ txs' = Append(txs, Tx(u, "SELL", t, q, loc[p].price, loc[p].total, "EXECUTED"))
  /\ pc' = [pc EXCEPT ![p] = "done"]
  /\ res' = [res EXCEPT ![p] = "OK"]
  /\ lockU' = ReleaseU(p)
  /\ lockH' = ReleaseH(p)
  /\ loc' = [loc EXCEPT ![p] = NoLoc]
  /\ UNCHANGED req
  /\ BackendFrame

\* deposit: INSERT INTO users (.., cash) VALUES (.., 0) ON CONFLICT (user_id) DO NOTHING
DepositEnsureUser(p) ==
  /\ pc[p] = "d_ensure"
  /\ LET u == req[p].userId IN
       cash' = [x \in DOMAIN cash \cup {u} |-> IF x \in DOMAIN cash THEN cash[x] ELSE 0]
  /\ pc' = [pc EXCEPT ![p] = "d_update"]
  /\ UNCHANGED << holdings, orders, txs, req, loc, res, lockU, lockH >>
  /\ BackendFrame

\* variant: UPDATE users SET cash = amount
DepositUpdate_Overwrites(p) ==
  /\ pc[p] = "d_update"
  /\ LET u == req[p].userId IN
       /\ lockU[u] = NoProc
       /\ cash' = [cash EXCEPT ![u] = req[p].n]
  /\ pc' = [pc EXCEPT ![p] = "d_tx"]
  /\ UNCHANGED << holdings, orders, txs, req, loc, res, lockU, lockH >>
  /\ BackendFrame

\* deposit: UPDATE users SET cash = cash + amount (autocommit; waits for the row lock)
DepositUpdate(p) ==
  /\ pc[p] = "d_update"
  /\ LET u == req[p].userId IN
       /\ lockU[u] = NoProc
       /\ IF CashColumnHolds(req[p].n)
            THEN /\ cash' = [cash EXCEPT ![u] = cash[u] + req[p].n]
                 /\ pc' = [pc EXCEPT ![p] = "d_tx"]
                 /\ UNCHANGED << holdings, orders, txs, req, loc, res, lockU, lockH >>
            ELSE Reply(p, "StorageFailure")
  /\ BackendFrame

\* deposit: INSERT INTO transactions (.. 'DEPOSIT','CASH',0,0,amount,'EXECUTED')
DepositLog(p) ==
  /\ pc[p] = "d_tx"
  /\ txs' = Append(txs, Tx(req[p].userId, "DEPOSIT", "CASH", 0, 0, req[p].n, "EXECUTED"))
  /\ pc' = [pc EXCEPT ![p] = "done"]
  /\ res' = [res EXCEPT ![p] = "OK"]
  /\ UNCHANGED << cash, holdings, orders, req, loc, lockU, lockH >>
  /\ BackendFrame

\* withdraw: BEGIN; SELECT cash FROM users .. FOR UPDATE; if (cash < amount) 400
WithdrawLockUser(p) ==
  /\ pc[p] = "w_lock"
  /\ LET u == req[p].userId IN
     IF u \notin DOMAIN cash
       THEN Reply(p, "NotFound")
       ELSE /\ lockU[u] = NoProc
            /\ IF InsufficientCash(cash[u], req[p].n)
                 THEN Reply(p, "InsufficientFunds")
                 ELSE /\ lockU' = [lockU EXCEPT ![u] = p]
                      /\ loc' = [loc EXCEPT ![p].cash = cash[u]]
                      /\ pc' = [pc EXCEPT ![p] = "w_commit"]
                      /\ UNCHANGED << store, req, res, lockH >>
  /\ BackendFrame

\* variant: UPDATE users SET cash = cash - amount  without its WHERE clause
WithdrawCommit_NoWhere(p) ==
  /\ pc[p] = "w_commit"
  /\ LET u == req[p].userId IN
       /\ cash' = [x \in DOMAIN cash |-> cash[x] - req[p].n]
       /\ txs' = Append(txs, Tx(u, "WITHDRAW", "CASH", 0, 0, 0 - req[p].n, "EXECUTED"))
  /\ pc' = [pc EXCEPT ![p] = "done"]
  /\ res' = [res EXCEPT ![p] = "OK"]
  /\ lockU' = ReleaseU(p)
  /\ lockH' = ReleaseH(p)
  /\ loc' = [loc EXCEPT ![p] = NoLoc]
  /\ UNCHANGED << holdings, orders, req >>
  /\ BackendFrame

\* withdraw: UPDATE users SET cash = cash - amount; INSERT INTO transactions; COMMIT
WithdrawCommit(p) ==
  /\ pc[p] = "w_commit"
  /\ LET u == req[p].userId IN
       /\ cash' = [cash EXCEPT ![u] = cash[u] - req[p].n]
       /\ txs' = Append(txs, Tx(u, "WITHDRAW", "CASH", 0, 0, 0 - req[p].n, "EXECUTED"))
  /\ pc' = [pc EXCEPT ![p] = "done"]
  /\ res' = [res EXCEPT ![p] = "OK"]
  /\ lockU' = ReleaseU(p)
  /\ lockH' = ReleaseH(p)
  /\ loc' = [loc EXCEPT ![p] = NoLoc]
  /\ UNCHANGED << holdings, orders, req >>
  /\ BackendFrame

\* POST /orders/:orderId/cancel: SELECT * FROM orders WHERE order_id=$1, then,
\* for an order read as PENDING, UPDATE orders SET status='CANCELED'
CancelStep(p) ==
  /\ pc[p] \in {"c_select", "c_update"}
  /\ LET i == req[p].n IN
     IF pc[p] = "c_select"
       THEN IF i \notin DOMAIN orders
              THEN Reply(p, "NotFound")
            ELSE IF ~Cancelable(orders[i])
              THEN Reply(p, orders[i].status)
            ELSE /\ pc' = [pc EXCEPT ![p] = "c_update"]
                 /\ UNCHANGED << store, req, loc, res, lockU, lockH >>
       ELSE /\ orders' = [orders EXCEPT ![i].status = "CANCELED"]
            /\ pc' = [pc EXCEPT ![p] = "done"]
            /\ res' = [res EXCEPT ![p] = "CANCELED"]
            /\ UNCHANGED << cash, holdings, txs, req, loc, lockU, lockH >>
  /\ BackendFrame

\* the request whose row lock p is waiting for, or NoProc
WaitsFor(p) ==
  CASE pc[p] = "b_hold" /\ lockH[<< req[p].userId, req[p].ticker >>] \notin {NoProc, p}
         -> lockH[<< req[p].userId, req[p].ticker >>]
    [] pc[p] = "s_cash" /\ lockU[req[p].userId] \notin {NoProc, p}
         -> lockU[req[p].userId]
    [] pc[p] \in {"b_lock", "w_lock", "d_update"} /\ req[p].userId \in DOMAIN cash
         -> lockU[req[p].userId]
    [] pc[p] = "s_lock" /\ req[p].ticker \in DOMAIN holdings[req[p].userId]
         -> lockH[<< req[p].userId, req[p].ticker >>]
    [] OTHER -> NoProc

Deadlocked(p) ==
  /\ WaitsFor(p) # NoProc
  /\ WaitsFor(WaitsFor(p)) = p

\* PostgreSQL's deadlock detector fails the waiting statement of one of the
\* transactions of a cycle; the handler's catch block runs ROLLBACK and answers 500
DeadlockAbort(p) ==
  /\ Deadlocked(p)
  /\ Reply(p, "InfrastructureError")
  /\ BackendFrame

\* a statement awaited by a handler throws (connection lost, statement
\* error): buy, sell and withdraw run  catch (err) { ROLLBACK; 500 }, which
\* discards their uncommitted writes; deposit and cancel run outside a
\* transaction, so the statements they already ran stay
StorageFailure(p) ==
  /\ pc[p] \notin {"idle", "done"}
  /\ Reply(p, "StorageFailure")
  /\ BackendFrame

BackendNext ==
  \E p \in Procs :
    \/ Start(p)
    \/ BuyLockUser(p)
    \/ BuyReadPrice(p)
    \/ BuyUpsertHolding(p)
    \/ BuyCommit(p)
    \/ SellLockHolding(p)
    \/ SellReadPrice(p)
    \/ SellCredit(p)
    \/ SellCommit(p)
    \/ DepositEnsureUser(p)
    \/ DepositUpdate(p)
    \/ DepositLog(p)
    \/ WithdrawLockUser(p)
    \/ WithdrawCommit(p)
    \/ CancelStep(p)
    \/ DeadlockAbort(p)

Next == MockNext \/ BackendNext \/ QuoteMove \/ Tick

Spec == Init /\ [][Next]_vars

(* ---------------- the backend with failing statements ------------------ *)
\* the market stays open and the quotes stay put
FaultInit == Init /\ ~useMock /\ marketStatusNow(mockMarketConfig, now).open

FaultNext == BackendNext \/ (\E p \in Procs : StorageFailure(p))

SpecFaults == FaultInit /\ [][FaultNext]_vars

(* --------- the program with requests that carry unusable numbers ------- *)
\* Number(shares) of requests that must be refused: 0, negative, NaN, Infinity
InvalidQuantities == {0, -5, NaN, Infinity}

\* Number(amount) of requests that must be refused
InvalidAmounts == {0, -950000, NaN, Infinity}

InvalidRequests ==
  [op : {"buy", "sell"}, userId : {"u1001"}, ticker : TradeTickers, n : InvalidQuantities]
    \cup [op : {"deposit", "withdraw"}, userId : {"u1001"}, ticker : {"CASH"}, n : InvalidAmounts]

StartInvalid(p) ==
  /\ ~useMock
  /\ CanStart(p)
  /\ \E r \in InvalidRequests : Arrive(p, r)

MockInvalid ==
  \/ \E t \in TradeTickers, q \in InvalidQuantities : buyStock("u1001", t, q)
  \/ \E t \in TradeTickers, q \in InvalidQuantities : sellStock("u1001", t, q)
  \/ \E a \in InvalidAmounts : depositCash("u1001", a)
  \/ \E a \in InvalidAmounts : withdrawCash("u1001", a)

ValidateInit == Init /\ marketStatusNow(mockMarketConfig, now).open

ValidateNext == MockNext \/ BackendNext \/ MockInvalid \/ (\E p \in Procs : StartInvalid(p))

SpecValidate == ValidateInit /\ [][ValidateNext]_vars

(* ============================ properties =============================== *)
\* positions of the orders that the current step settles (become EXECUTED)
Settled ==
  { i \in DOMAIN orders' :
      /\ orders'[i].status = "EXECUTED"
      /\ (i \in DOMAIN orders => orders[i].status # "EXECUTED") }

\* shares of (u, t) bought and sold according to the transaction log, on top of the seed
RECURSIVE LoggedShares(_, _, _)
LoggedShares(u, t, i) ==
  IF i > Len(txs) THEN 0
  ELSE LoggedShares(u, t, i + 1) +
       (IF txs[i].userId = u /\ txs[i].ticker = t /\ txs[i].status = "EXECUTED"
          THEN (CASE txs[i].type = "BUY" -> txs[i].shares
                  [] txs[i].type = "SELL" -> 0 - txs[i].shares
                  [] OTHER -> 0)
          ELSE 0)

ShareCount(u, t) ==
  (IF t \in DOMAIN mockHoldings[u] THEN mockHoldings[u][t].shares ELSE 0)
    + LoggedShares(u, t, Len(mockTransactions) + 1)

\* C1: every account's cash is non-negative in every reachable state.
C1_CashNonNegative == \A u \in DOMAIN cash : cash[u] >= 0

\* C1 witness: an account was drawn down and a further debit was refused for lack of funds
C1_Witness ==
  /\ \E u \in DOMAIN cash : cash[u] < mockUsers["u1001"]
  /\ \/ last.result = "InsufficientFunds"
     \/ \E p \in Procs : res[p] = "InsufficientFunds"

\* C2: every holding entry has shares > 0, and an entry exists exactly when the
\* account's share count for the ticker (seed plus settled buys minus settled
\* sells) is positive, in which case it carries that count.
C2_HoldingsPositive ==
  \A u \in UserIds :
    /\ \A t \in DOMAIN holdings[u] : holdings[u][t].shares > 0
    /\ \A t \in Tickers :
         /\ (t \in DOMAIN holdings[u]) <=> (ShareCount(u, t) > 0)
         /\ t \in DOMAIN holdings[u] => holdings[u][t].shares = ShareCount(u, t)

\* C2 witness: a settled sell has removed the AAPL entry of u1001
C2_Witness ==
  /\ "AAPL" \notin DOMAIN holdings["u1001"]
  /\ \E i \in DOMAIN txs : txs[i].type = "SELL" /\ txs[i].ticker = "AAPL"

\* ledger after the buy or sell request r has run alone, start to finish, on ledger st
SerialRequest(st, r) ==
  LET u == r.userId
      t == r.ticker
      q == r.n
      total == price[t] * q
  IN IF u \notin DOMAIN st.cash THEN st
     ELSE IF r.op = "buy"
       THEN IF InsufficientCash(st.cash[u], total) THEN st
            ELSE [cash |-> [st.cash EXCEPT ![u] = st.cash[u] - total],
                  holdings |-> [st.holdings EXCEPT ![u] = BuyHoldings(st.holdings[u], t, q, price[t])],
                  txs |-> Append(st.txs, Tx(u, "BUY", t, q, price[t], total, "EXECUTED"))]
       ELSE IF InsufficientShares(st.holdings[u], t, q) THEN st
            ELSE [cash |-> [st.cash EXCEPT ![u] = st.cash[u] + total],
                  holdings |-> [st.holdings EXCEPT ![u] = SellHoldings(st.holdings[u], t, q)],
                  txs |-> Append(st.txs, Tx(u, "SELL", t, q, price[t], total, "EXECUTED"))]

\* ledger after the requests of the slots order[i], .. , order[NProcs] have run one after another
RECURSIVE SerialRun(_, _, _)
SerialRun(st, order, i) ==
  IF i > NProcs THEN st
  ELSE SerialRun(SerialRequest(st, req[order[i]]), order, i + 1)

SerialOrders == { f \in [Procs -> Procs] : \A a, b \in Procs : f[a] = f[b] => a = b }

\* all slots carried buy/sell requests on one account, passed the market gate,
\* settled at the current quotes, and have answered
ConcurrentTradesDone ==
  /\ ~useMock
  /\ \A p \in Procs :
       /\ pc[p] = "done"
       /\ req[p].op \in {"buy", "sell"}
       /\ req[p].userId = "u1001"
       /\ res[p] # "MarketClosed"
  /\ \A i \in DOMAIN txs :
       i > Len(mockTransactions) => txs[i].price = price[txs[i].ticker]

\* C3: N concurrent buy/sell requests on one account end with no negative cash,
\* no negative shares, and in the final ledger (cash, holdings, transactions)
\* of some serial execution of the same requests.
C3_SerialOutcome ==
  ConcurrentTradesDone =>
    /\ \A u \in DOMAIN cash : cash[u] >= 0
    /\ \A u \in UserIds : \A t \in DOMAIN holdings[u] : holdings[u][t].shares >= 0
    /\ \E f \in SerialOrders :
         SerialRun([cash |-> mockUsers, holdings |-> mockHoldings, txs |-> mockTransactions], f, 1)
           = [cash |-> cash, holdings |-> holdings, txs |-> txs]

\* C4: no reachable state has two operations each waiting for a row lock the
\* other one holds.
C4_NoLockCycle == \A p \in Procs : ~Deadlocked(p)

\* inside the exclusive section the design asks for: from before the price is
\* read (or, for deposit and withdraw, from the cash update) to the append of
\* the transaction record
InSection(p) ==
  pc[p] \in {"b_price", "b_hold", "b_commit", "s_price", "s_cash", "s_commit", "w_commit", "d_tx"}

\* C5: no two operations on the same account are inside their exclusive
\* sections at the same time.
C5_AccountMutex ==
  \A p, q \in Procs :
    (p # q /\ InSection(p) /\ InSection(q)) => req[p].userId # req[q].userId

\* C6: while the market clock reports closed, no order is created and none is settled.
C6_ClosedMarketGate ==
  [][ ~marketStatusNow(mockMarketConfig, now).open =>
        (Len(orders') = Len(orders) /\ Settled = {}) ]_vars

\* the transaction appended by the current step
NewTx == txs'[Len(txs')]
HeldShares(u, t) == IF t \in DOMAIN holdings[u] THEN holdings[u][t].shares ELSE 0
HeldAvgCost(u, t) == IF t \in DOMAIN holdings[u] THEN holdings[u][t].avgCost ELSE 0

\* C7: a step that settles one buy of q shares at price p appends its BUY
\* transaction, debits cash by exactly q*p (which the cash covered), raises the
\* holding by q shares and sets its average cost to
\* (oldAvgCost*oldShares + p*q)/(oldShares + q) to the nearest cent, p for a new holding.
C7_BuySemantics ==
  [][ \A i \in DOMAIN orders' :
        (Settled = {i} /\ orders'[i].type = "BUY") =>
          LET u == orders'[i].userId
              t == orders'[i].ticker
              q == orders'[i].shares
              p == NewTx.price
              n == HeldShares(u, t) + q
              num == HeldAvgCost(u, t) * HeldShares(u, t) + p * q
          IN /\ Len(txs') = Len(txs) + 1
             /\ NewTx = Tx(u, "BUY", t, q, p, q * p, "EXECUTED")
             /\ cash[u] >= q * p
             /\ cash'[u] = cash[u] - q * p
             /\ t \in DOMAIN holdings'[u]
             /\ holdings'[u][t].shares = n
             /\ 2 * n * holdings'[u][t].avgCost <= 2 * num + n
             /\ 2 * num + n < 2 * n * holdings'[u][t].avgCost + 2 * n
             /\ HeldShares(u, t) = 0 => holdings'[u][t].avgCost = p ]_vars

\* C7 witness: cash 10000.00 with AAPL 10 @175.00, after buying 5 @182.34
C7_Witness ==
  /\ cash["u1001"] = 908830
  /\ "AAPL" \in DOMAIN holdings["u1001"]
  /\ holdings["u1001"]["AAPL"] = [shares |-> 15, avgCost |-> 17745]
  /\ txs[Len(txs)] = Tx("u1001", "BUY", "AAPL", 5, 18234, 91170, "EXECUTED")

\* C8: a step that settles one sell of q shares at price p appends its SELL
\* transaction, credits cash by exactly q*p, lowers the holding by q shares,
\* keeps its average cost while shares remain, and removes the entry exactly
\* when no share remains.
C8_SellSemantics ==
  [][ \A i \in DOMAIN orders' :
        (Settled = {i} /\ orders'[i].type = "SELL") =>
          LET u == orders'[i].userId
              t == orders'[i].ticker
              q == orders'[i].shares
              p == NewTx.price
              left == HeldShares(u, t) - q
          IN /\ Len(txs') = Len(txs) + 1
             /\ NewTx = Tx(u, "SELL", t, q, p, q * p, "EXECUTED")
             /\ cash'[u] = cash[u] + q * p
             /\ left >= 0
             /\ (t \notin DOMAIN holdings'[u]) <=> (left = 0)
             /\ left > 0 => holdings'[u][t] = [shares |-> left, avgCost |-> HeldAvgCost(u, t)] ]_vars

\* C8 witness: after scenario 1, all 15 AAPL were sold @182.34
C8_Witness ==
  /\ cash["u1001"] = 1182340
  /\ "AAPL" \notin DOMAIN holdings["u1001"]
  /\ txs[Len(txs)] = Tx("u1001", "SELL", "AAPL", 15, 18234, 273510, "EXECUTED")

\* positions of the pending orders that the current step rejects
Rejected ==
  { i \in DOMAIN orders : orders[i].status = "PENDING" /\ orders'[i].status = "REJECTED" }

\* the request of kind op, with user u and quantity n, lacks cash resp. shares in the current state
LacksFunds(u, n) == \E t \in TradeTickers : cash[u] < n * price[t]
LacksShares(u, n) == \E t \in TradeTickers : HeldShares(u, t) < n

C10_PriceReadOnce ==
  [][ \A i \in DOMAIN orders' :
        Settled = {i} =>
          /\ NewTx.price = orders'[i].priceAtRequest
          /\ NewTx.total = orders'[i].shares * orders'[i].priceAtRequest ]_vars

\* C11: a cancel of a PENDING order moves it to CANCELED, and the step that
\* cancels an order changes neither cash nor holdings of any account.
C11_CancelLeavesLedger ==
  [][ \A i \in DOMAIN orders :
        /\ (orders[i].status = "PENDING" /\ orders'[i].status = "CANCELED") =>
             (cash' = cash /\ holdings' = holdings)
        /\ (last' # last /\ last'.op = "cancel" /\ last'.n = i /\ orders[i].status = "PENDING") =>
             (orders'[i].status = "CANCELED" /\ last'.result = "CANCELED") ]_vars

\* C11 witness: a pending order has just been canceled
C11_Witness ==
  /\ last.op = "cancel" /\ last.result = "CANCELED"
  /\ last.n \in DOMAIN orders
  /\ orders[last.n].status = "CANCELED"

\* C12: the step that cancels a PENDING order appends exactly one CANCEL
\* transaction, for the order's account, with the order's captured price and
\* total = captured price * quantity.
C12_CancelLogged ==
  [][ \A i \in DOMAIN orders :
        (orders[i].status = "PENDING" /\ orders'[i].status = "CANCELED") =>
          txs' = Append(txs, Tx(orders[i].userId, "CANCEL", orders[i].ticker, orders[i].shares,
                                orders[i].priceAtRequest,
                                orders[i].shares * orders[i].priceAtRequest, "CANCELED")) ]_vars

\* C12 witness: a CANCEL record whose captured price is no longer the current quote
C12_Witness ==
  /\ txs[Len(txs)].type = "CANCEL"
  /\ txs[Len(txs)].total = txs[Len(txs)].shares * txs[Len(txs)].price
  /\ txs[Len(txs)].price # price[txs[Len(txs)].ticker]

\* C13: a cancel of an order that is not PENDING answers with the order's
\* current status, is not an error, and changes nothing.
C13_CancelTerminalEchoes ==
  [][ /\ \A i \in DOMAIN orders :
           (last' # last /\ last'.op = "cancel" /\ last'.n = i /\ orders[i].status # "PENDING") =>
             (last'.result = orders[i].status /\ UNCHANGED << cash, holdings, orders, txs >>)
      /\ \A p \in Procs :
           (req[p].op = "cancel" /\ res[p] = "none" /\ res'[p] # "none"
              /\ req[p].n \in DOMAIN orders /\ orders[req[p].n].status # "PENDING") =>
             (res'[p] = orders[req[p].n].status /\ UNCHANGED << cash, holdings, orders, txs >>) ]_vars

\* C14: order status moves PENDING -> EXECUTED | REJECTED | CANCELED only: a
\* terminal order never changes again, an order becomes CANCELED only from
\* PENDING, and no order leaves the table.
C14_OrderLifecycle ==
  [][ /\ Len(orders') >= Len(orders)
      /\ \A i \in DOMAIN orders :
           /\ orders[i].status # "PENDING" => orders'[i] = orders[i]
           /\ orders'[i].status \in {"PENDING", "EXECUTED", "REJECTED", "CANCELED"}
           /\ [orders'[i] EXCEPT !.status = "PENDING"] = [orders[i] EXCEPT !.status = "PENDING"]
      /\ \A i \in DOMAIN orders' \ DOMAIN orders :
           orders'[i].status \in {"PENDING", "EXECUTED"} ]_vars

\* C14 witness: cancel was asked again for an order that is already CANCELED
\* while another order of the table has been settled
C14_Witness ==
  /\ last.op = "cancel" /\ last.result = "InvalidState"
  /\ last.n \in DOMAIN orders
  /\ orders[last.n].status = "CANCELED"
  /\ \E i \in DOMAIN orders : orders[i].status = "EXECUTED"

\* the request of slot p has just been answered with r
Answered(p, r) == res[p] = "none" /\ res'[p] = r

\* C15: a withdraw of a > 0 on an existing account succeeds iff cash >= a; on
\* success cash drops by exactly a and one EXECUTED WITHDRAW transaction is
\* appended; with cash < a it fails with InsufficientFunds and cash and the
\* log stay as they were.
C15_WithdrawSemantics ==
  [][ /\ (useMock /\ Len(txs') = Len(txs) + 1 /\ NewTx.type = "WITHDRAW") =>
           LET u == NewTx.userId
               a == NewTx.total
           IN /\ NewTx = Tx(u, "WITHDRAW", "CASH", 0, a, a, "EXECUTED")
              /\ last' = Outcome("withdraw", u, a, "OK")
              /\ cash[u] >= a
              /\ cash' = [cash EXCEPT ![u] = cash[u] - a]
      /\ (last' # last /\ last'.op = "withdraw" /\ last'.userId \in DOMAIN cash) =>
           LET u == last'.userId
               a == last'.n
           IN /\ last'.result = "OK" <=> cash[u] >= a
              /\ last'.result = "OK" => (Len(txs') = Len(txs) + 1 /\ NewTx.type = "WITHDRAW")
              /\ last'.result # "OK" =>
                   (last'.result = "InsufficientFunds" /\ cash' = cash /\ txs' = txs)
      /\ \A p \in Procs :
           (req[p].op = "withdraw" /\ req[p].userId \in DOMAIN cash) =>
             LET u == req[p].userId
                 a == req[p].n
             IN /\ Answered(p, "OK") =>
                     /\ cash[u] >= a
                     /\ cash' = [cash EXCEPT ![u] = cash[u] - a]
                     /\ txs' = Append(txs, Tx(u, "WITHDRAW", "CASH", 0, 0, 0 - a, "EXECUTED"))
                /\ Answered(p, "InsufficientFunds") =>
                     (cash[u] < a /\ cash' = cash /\ txs' = txs)
                /\ (res[p] = "none" /\ res'[p] # "none") =>
                     res'[p] \in {"OK", "InsufficientFunds", "StorageFailure"}
                /\ (pc'[p] # pc[p] /\ res'[p] # "OK") => (cash' = cash /\ txs' = txs) ]_vars

\* C15 witness: after buying 5 AAPL @182.34 and selling 15 @182.34 the cash is
\* 11823.40 and a withdraw of 20000.00 has failed with InsufficientFunds
C15_Witness ==
  /\ cash["u1001"] = 1182340
  /\ \/ last = Outcome("withdraw", "u1001", 2000000, "InsufficientFunds")
     \/ \E p \in Procs : /\ req[p] = [op |-> "withdraw", userId |-> "u1001", ticker |-> "CASH", n |-> 2000000]
                         /\ res[p] = "InsufficientFunds"

\* C16: deposit(a) adds exactly a, and a withdraw(a) on the same account that
\* follows it with nothing in between succeeds and takes exactly a away again,
\* so the account's cash is back at its value before the deposit.
C16_DepositWithdrawRoundTrip ==
  [][ /\ (useMock /\ Len(txs') = Len(txs) + 1 /\ NewTx.type = "DEPOSIT") =>
           cash' = [cash EXCEPT ![NewTx.userId] = cash[NewTx.userId] + NewTx.total]
      /\ (last.op = "deposit" /\ last.result = "OK" /\ last'.op = "withdraw"
            /\ last'.userId = last.userId /\ last'.n = last.n) =>
           /\ last'.result = "OK"
           /\ cash' = [cash EXCEPT ![last.userId] = cash[last.userId] - last.n]
      /\ \A p \in Procs :
           (pc[p] = "d_update" /\ pc'[p] = "d_tx") =>
             cash' = [cash EXCEPT ![req[p].userId] = cash[req[p].userId] + req[p].n]
      /\ \A p, q \in Procs :
           ( /\ req[p].op = "deposit" /\ pc[p] = "done" /\ res[p] = "OK"
             /\ req[q].op = "withdraw" /\ req[q].userId = req[p].userId /\ req[q].n = req[p].n
             /\ res[q] = "none" /\ res'[q] # "none"
             /\ \A r \in Procs \ {p, q} : pc[r] = "idle" ) =>
             /\ res'[q] \in {"OK", "StorageFailure"}
             /\ res'[q] = "OK" =>
                  cash' = [cash EXCEPT ![req[q].userId] = cash[req[q].userId] - req[q].n] ]_vars

\* C16 witness: deposit 9500.00 then withdraw 9500.00 on the seed account,
\* whose cash is 10000.00 again
C16_Witness ==
  /\ cash["u1001"] = mockUsers["u1001"]
  /\ Len(txs) = Len(mockTransactions) + 2
  /\ txs[Len(txs) - 1].type = "DEPOSIT" /\ txs[Len(txs) - 1].total = 950000
  /\ txs[Len(txs)].type = "WITHDRAW" /\ txs[Len(txs)].userId = "u1001"
  /\ txs[Len(txs)].total \in {950000, 0 - 950000}

\* cash flows of account u recorded in the log from record i on
RECURSIVE LoggedCash(_, _)
LoggedCash(u, i) ==
  IF i > Len(txs) THEN 0
  ELSE LoggedCash(u, i + 1) +
       (IF txs[i].userId = u /\ txs[i].status = "EXECUTED"
          THEN (CASE txs[i].type = "DEPOSIT" -> txs[i].total
                  [] txs[i].type = "WITHDRAW" -> IF txs[i].total < 0 THEN txs[i].total ELSE 0 - txs[i].total
                  [] txs[i].type = "BUY" -> 0 - txs[i].total
                  [] txs[i].type = "SELL" -> txs[i].total
                  [] OTHER -> 0)
          ELSE 0)

\* seed cash of u (0 for an account created later) plus its logged cash flows
CashCount(u) ==
  (IF u \in DOMAIN mockUsers THEN mockUsers[u] ELSE 0) + LoggedCash(u, Len(mockTransactions) + 1)

\* C17: every operation is all-or-nothing, also when a statement fails
\* between two of its steps: in every reachable state each account's cash is
\* its seed cash plus the cash flows of the transaction records, and each
\* holding is the seed holding plus the recorded buys minus the recorded sells.
C17_AllOrNothing ==
  /\ \A u \in DOMAIN cash : cash[u] = CashCount(u)
  /\ \A u \in UserIds : \A t \in Tickers : HeldShares(u, t) = ShareCount(u, t)

\* C18: every step of a buy or sell other than its COMMIT, in particular the
\* step where a statement fails inside BEGIN .. COMMIT and the handler rolls
\* back, leaves cash, holdings, the order table and the transaction log as
\* they were; the aborted request is answered with the failure.
C18_FailureRollsBack ==
  [][ \A p \in Procs :
        (req'[p].op \in {"buy", "sell"} /\ pc'[p] # pc[p] /\ res'[p] # "OK") =>
          UNCHANGED << cash, holdings, orders, txs >> ]_vars

\* C18 witness: a buy has failed after it had locked the account, while the
\* ledger is the seed ledger
C18_Witness ==
  \E p \in Procs :
    /\ req[p].op = "buy" /\ res[p] = "StorageFailure"
    /\ \E q \in Procs \ {p} : req[q].op = "sell" /\ res[q] = "StorageFailure"
    /\ << cash, holdings, orders, txs >> = << mockUsers, mockHoldings, mockOrders, mockTransactions >>

\* C19: a deposit, withdraw, buy or sell that names an account which does not
\* exist is answered NotFound and changes nothing: no account is created and
\* no transaction is appended. (For the backend's buy and sell only the
\* unchanged state is stated here, not the kind of the answer.)
C19_UnknownAccount ==
  [][ /\ (last' # last /\ last'.op \in {"deposit", "withdraw", "buy", "sell"}
            /\ last'.userId \notin DOMAIN cash) =>
           (last'.result = "NotFound" /\ UNCHANGED << cash, holdings, orders, txs >>)
      /\ \A p \in Procs :
           (req'[p].op \in {"deposit", "withdraw", "buy", "sell"}
              /\ req'[p].userId \notin DOMAIN cash /\ pc'[p] # pc[p]) =>
             /\ UNCHANGED << cash, holdings, orders, txs >>
             /\ (req'[p].op \in {"deposit", "withdraw"} /\ res[p] = "none" /\ res'[p] # "none") =>
                  res'[p] = "NotFound" ]_vars

\* C20: a buy, sell, deposit or withdraw whose quantity or amount is zero,
\* negative, NaN or infinite is answered InvalidArgument at once: the request
\* never enters the handler's statements, takes no lock and changes nothing.
C20_InvalidNumberRejected ==
  [][ /\ (last' # last /\ last'.op \in {"buy", "sell", "deposit", "withdraw"}
            /\ (~IsFinite(last'.n) \/ last'.n <= 0)) =>
           (last'.result = "InvalidArgument" /\ UNCHANGED << cash, holdings, orders, txs >>)
      /\ \A p \in Procs :
           (req'[p].op \in {"buy", "sell", "deposit", "withdraw"}
              /\ (~IsFinite(req'[p].n) \/ req'[p].n <= 0) /\ pc'[p] # pc[p]) =>
             /\ pc'[p] = "done"
             /\ res'[p] = "InvalidArgument"
             /\ UNCHANGED << cash, holdings, orders, txs, lockU, lockH >> ]_vars

\* C21: the transaction log is append-only: every step leaves the records
\* already in the log in place and unchanged (so each account's records in a
\* state extend its records in every earlier state).
C21_LogAppendOnly ==
  [][ /\ Len(txs') >= Len(txs)
      /\ SubSeq(txs', 1, Len(txs)) = txs ]_vars

\* C21 witness: the log has grown to its bound behind the seed record
C21_Witness ==
  /\ Len(txs) = MaxTx
  /\ SubSeq(txs, 1, Len(mockTransactions)) = mockTransactions
  /\ \E i \in DOMAIN txs : txs[i].type = "DEPOSIT"

\* C22: getTransactions(u) answers exactly the records of account u, the one
\* appended later first.
C22_MostRecentFirst ==
  \A u \in UserIds : getTransactions(u) = Reverse(TxOf(u))

(* ------------- GET /users/:userId/portfolio beside trades -------------- *)
\* a portfolio request arrives
StartPortfolio(p) ==
  /\ ~useMock
  /\ CanStart(p)
  /\ req' = [req EXCEPT ![p] = [op |-> "portfolio", userId |-> "u1001", ticker |-> "AAPL", n |-> 0]]
  /\ pc' = [pc EXCEPT ![p] = "p_cash"]
  /\ UNCHANGED << store, loc, res, lockU, lockH >>
  /\ BackendFrame

\* portfolio: SELECT cash FROM users WHERE user_id=$1 (autocommit, no lock)
PortfolioReadCash(p) ==
  /\ pc[p] = "p_cash"
  /\ IF req[p].userId \notin DOMAIN cash
       THEN Reply(p, "NotFound")
       ELSE /\ loc' = [loc EXCEPT ![p].cash = cash[req[p].userId]]
            /\ pc' = [pc EXCEPT ![p] = "p_hold"]
            /\ UNCHANGED << store, req, res, lockU, lockH >>
  /\ BackendFrame

\* portfolio: SELECT .. FROM holdings h JOIN stocks s .. WHERE h.user_id=$1, a
\* second statement; then res.json({cash, holdings, totalStockValue,
\* totalAccountValue}). Of the holdings rows the shares and the market value
\* of the traded ticker are kept (loc.owned, loc.total).
PortfolioReadHoldings(p) ==
  /\ pc[p] = "p_hold"
  /\ loc' = [loc EXCEPT ![p].owned = HeldShares(req[p].userId, req[p].ticker),
                        ![p].price = price[req[p].ticker],
                        ![p].total = HeldShares(req[p].userId, req[p].ticker) * price[req[p].ticker]]
  /\ pc' = [pc EXCEPT ![p] = "done"]
  /\ res' = [res EXCEPT ![p] = "OK"]
  /\ UNCHANGED << store, req, lockU, lockH >>
  /\ BackendFrame

\* a buy or sell request of the account arrives
StartTrade(p) ==
  /\ ~useMock
  /\ CanStart(p)
  /\ \E r \in [op : {"buy", "sell"}, userId : {"u1001"}, ticker : TradeTickers, n : Quantities] :
       Arrive(p, r)

\* the market stays open and the quotes stay put
ReadsInit == Init /\ ~useMock /\ marketStatusNow(mockMarketConfig, now).open

ReadsNext ==
  \E p \in Procs :
    \/ StartTrade(p)
    \/ StartPortfolio(p)
    \/ PortfolioReadCash(p)
    \/ PortfolioReadHoldings(p)
    \/ BuyLockUser(p)
    \/ BuyReadPrice(p)
    \/ BuyUpsertHolding(p)
    \/ BuyCommit(p)
    \/ SellLockHolding(p)
    \/ SellReadPrice(p)
    \/ SellCredit(p)
    \/ SellCommit(p)
    \/ DeadlockAbort(p)

SpecReads == ReadsInit /\ [][ReadsNext]_vars

\* cash c with k shares of ticker t is a state the account u can be in when
\* only trades of t at the one quote run: a trade moves q * price between
\* cash and the position, so cash + shares * price keeps its seed value
TradeState(u, t, c, k) ==
  c + k * price[t] = mockUsers[u] + mockHoldings[u][t].shares * price[t]

\* C23: the cash and the holdings answered by one portfolio read belong to
\* one committed state of the account: never the cash of before a trade with
\* the holdings of after it, or the other way round.
C23_PortfolioSnapshot ==
  /\ TradeState("u1001", "AAPL", cash["u1001"], HeldShares("u1001", "AAPL"))
  /\ \A p \in Procs :
       (req[p].op = "portfolio" /\ pc[p] = "done" /\ res[p] = "OK") =>
         TradeState(req[p].userId, req[p].ticker, loc[p].cash, loc[p].owned)

\* the next statement of the request in slot p
StepOf(p) ==
  \/ BuyLockUser(p) \/ BuyReadPrice(p) \/ BuyUpsertHolding(p) \/ BuyCommit(p)
  \/ SellLockHolding(p) \/ SellReadPrice(p) \/ SellCredit(p) \/ SellCommit(p)
  \/ DepositEnsureUser(p) \/ DepositUpdate(p) \/ DepositLog(p)
  \/ WithdrawLockUser(p) \/ WithdrawCommit(p)
  \/ CancelStep(p)

\* the request in slot q holds a row lock
HoldsLock(q) ==
  \/ \E u \in UserIds : lockU[u] = q
  \/ \E k \in UserIds \X Tickers : lockH[k] = q

\* the orders of account u, in the order they were created
OrdersOf(u) == SelectSeq(orders, LAMBDA o : o.userId = u)

\* what the tables hold about account u
AccountView(u) ==
  << IF u \in DOMAIN cash THEN << cash[u] >> ELSE << >>, holdings[u], OrdersOf(u), TxOf(u) >>

\* C24: operations on different accounts are independent: a step of a request
\* on account A leaves the cash, holdings, orders and transactions of every
\* other account as they were, and a request in flight can take its next step
\* unless a request on its own account holds a row lock.
C24_AccountsIndependent ==
  /\ [](\A p \in Procs :
          ( /\ pc[p] \notin {"idle", "done"}
            /\ \A q \in Procs \ {p} : HoldsLock(q) => req[q].userId # req[p].userId )
          => ENABLED StepOf(p))
  /\ [][ \A p \in Procs :
           (pc'[p] # pc[p] /\ req'[p].op # "cancel") =>
             \A b \in UserIds \ {req'[p].userId} : AccountView(b)' = AccountView(b) ]_vars

\* C24 witness: a deposit to u2002 has run to its end while a buy of u1001
\* holds the lock of its account
C24_Witness ==
  \E p, q \in Procs :
    /\ req[p].userId = "u1001" /\ req[p].op = "buy" /\ lockU["u1001"] = p
    /\ req[q] = [op |-> "deposit", userId |-> "u2002", ticker |-> "CASH", n |-> 950000]
    /\ pc[q] = "done" /\ res[q] = "OK"
    /\ "u2002" \in DOMAIN cash /\ cash["u2002"] = 950000
    /\ cash["u1001"] = mockUsers["u1001"]

(* ------------------ the market clock under its inputs ------------------ *)
\* open / close times an admin may set, in minutes of the day
OpenTimes == {570, 600}
CloseTimes == {780, 960}

\* instants the clock may show: Friday, Saturday, Sunday at the minutes
\* around every boundary
ClockSamples ==
  [weekday : {5, 6, 7},
   minute : {569, 570, 571, 599, 600, 601, 779, 780, 781, 959, 960, 961}]

\* PUT /admin/market/hours: UPDATE market_config SET open_time=$1, close_time=$2, ..
adminUpdateMarketHours(o, c) ==
  /\ market' = [market EXCEPT !.open_time = o, !.close_time = c]
  /\ UNCHANGED << useMock, cash, holdings, price, orders, txs, now, last, backend >>

\* PUT /admin/market/schedule: UPDATE market_config SET weekdays_only=$1, ..
adminUpdateMarketSchedule(w) ==
  /\ market' = [market EXCEPT !.weekdays_only = w]
  /\ UNCHANGED << useMock, cash, holdings, price, orders, txs, now, last, backend >>

\* DateTime.now().setZone(tz) shows another instant
ClockMove ==
  /\ \E i \in ClockSamples : i # now /\ now' = i
  /\ UNCHANGED << useMock, cash, holdings, price, orders, txs, market, last, backend >>

ClockInit == Init /\ ~useMock

\* orders arrive and meet the market check; what follows the check is not
\* scheduled here
ClockNext ==
  \/ \E o \in OpenTimes, c \in CloseTimes : adminUpdateMarketHours(o, c)
  \/ \E w \in BOOLEAN : adminUpdateMarketSchedule(w)
  \/ ClockMove
  \/ \E p \in Procs : StartTrade(p)

SpecClock == ClockInit /\ [][ClockNext]_vars

\* the weekend rule applies to the instant shown
WeekendRule == market.weekdays_only /\ now.weekday \in {6, 7}

\* the instant shown lies in [open_time, close_time], both ends included
WithinHours == market.open_time <= now.minute /\ now.minute <= market.close_time

\* an order arrives in slot p
Arrives(p) == pc[p] = "idle" /\ pc'[p] # "idle"

\* C25: where the weekend rule does not apply, the market clock reports open
\* at every instant of [openTime, closeTime], both boundaries included, and
\* closed with reason 'Outside market hours' at every instant before openTime
\* or after closeTime; an arriving order is refused as MarketClosed exactly
\* in the second case.
C25_HoursInclusive ==
  /\ [](~WeekendRule =>
          marketStatusNow(market, now) =
            IF WithinHours THEN [open |-> TRUE, reason |-> "Open"]
                           ELSE [open |-> FALSE, reason |-> "Outside market hours"])
  /\ [][ \A p \in Procs :
           (Arrives(p) /\ ~WeekendRule) => (res'[p] = "MarketClosed" <=> ~WithinHours) ]_vars

\* C25 witness: at the closing minute of hours an admin has set, one order
\* stands admitted and another one was refused
C25_Witness ==
  /\ ~WeekendRule
  /\ market.close_time = 780 /\ now.minute = market.close_time
  /\ marketStatusNow(market, now).open
  /\ \E p, q \in Procs : pc[p] \in {"b_lock", "s_lock"} /\ res[q] = "MarketClosed"

\* C26: with weekdays-only set the market clock reports closed on Saturday
\* and Sunday at every time of day; with weekdays-only unset a weekend instant
\* inside [openTime, closeTime] is reported open; arriving orders are refused
\* or admitted accordingly.
C26_WeekendRule ==
  /\ []( /\ WeekendRule => ~marketStatusNow(market, now).open
         /\ (~market.weekdays_only /\ now.weekday \in {6, 7} /\ WithinHours) =>
              marketStatusNow(market, now).open )
  /\ [][ \A p \in Procs :
           /\ (Arrives(p) /\ WeekendRule) => res'[p] = "MarketClosed"
           /\ (Arrives(p) /\ ~market.weekdays_only /\ now.weekday \in {6, 7} /\ WithinHours) =>
                res'[p] # "MarketClosed" ]_vars

\* C26 witness: a Sunday inside the hours with weekdays-only unset, one order
\* admitted and another one refused
C26_Witness ==
  /\ ~market.weekdays_only /\ now.weekday = 7 /\ WithinHours
  /\ marketStatusNow(market, now).open
  /\ \E p, q \in Procs : pc[p] \in {"b_lock", "s_lock"} /\ res[q] = "MarketClosed"

\* the order object of the body answered by a committed buy or sell:
\* res.json({message, order: {orderId, userId, type, ticker, shares, requestedAt,
\* status: "PENDING", priceAtRequest}})
OrderReceipt(p) ==
  [userId |-> req[p].userId,
   type |-> IF req[p].op = "buy" THEN "BUY" ELSE "SELL",
   ticker |-> req[p].ticker,
   shares |-> req[p].n,
   status |-> "PENDING"]

\* C27: the receipt answered by a successful backend buy or sell carries the
\* status the order row has at commit, a terminal one, never PENDING.
C27_ReceiptStatus ==
  [][ \A p \in Procs :
        (req[p].op \in {"buy", "sell"} /\ Answered(p, "OK")) =>
          /\ OrderReceipt(p).status = orders'[Len(orders')].status
          /\ OrderReceipt(p).status # "PENDING" ]_vars

\* C28: an order that names an account which does not exist is answered
\* NotFound, whether the market is open or closed.
C28_NotFoundBeforeClock ==
  [][ /\ (last' # last /\ last'.op \in {"buy", "sell"} /\ last'.userId \notin DOMAIN cash) =>
           last'.result = "NotFound"
      /\ \A p \in Procs :
           (req'[p].op \in {"buy", "sell"} /\ req'[p].userId \notin DOMAIN cash
              /\ res[p] = "none" /\ res'[p] # "none") =>
             res'[p] = "NotFound" ]_vars

\* total of the executed BUY records of account u for ticker t from record i on
RECURSIVE LoggedBuyCost(_, _, _)
LoggedBuyCost(u, t, i) ==
  IF i > Len(txs) THEN 0
  ELSE LoggedBuyCost(u, t, i + 1) +
       (IF txs[i].userId = u /\ txs[i].ticker = t /\ txs[i].type = "BUY" /\ txs[i].status = "EXECUTED"
          THEN txs[i].total ELSE 0)

\* no executed SELL of account u for ticker t is in the log behind the seed
NoSellLogged(u, t) ==
  \A i \in DOMAIN txs :
    i > Len(mockTransactions) =>
      ~(txs[i].userId = u /\ txs[i].ticker = t /\ txs[i].type = "SELL" /\ txs[i].status = "EXECUTED")

\* cost of the seed position of account u in ticker t
SeedCost(u, t) ==
  IF t \in DOMAIN mockHoldings[u] THEN mockHoldings[u][t].avgCost * mockHoldings[u][t].shares ELSE 0

\* C29: after buys only, a holding's average cost is the sum of price *
\* quantity over the position's buys divided by its shares, rounded once to
\* the cent.
C29_AvgCostRoundedOnce ==
  \A u \in UserIds : \A t \in DOMAIN holdings[u] :
    NoSellLogged(u, t) =>
      holdings[u][t].avgCost =
        ToFixed2(SeedCost(u, t) + LoggedBuyCost(u, t, Len(mockTransactions) + 1), holdings[u][t].shares)

\* C30: in the backend no request ever sees an order row in PENDING status:
\* every order in the table is EXECUTED, and the cancel handler never reaches
\* its UPDATE and never answers CANCELED.
C30_NoPendingInBackend ==
  ~useMock =>
    /\ \A i \in DOMAIN orders : orders[i].status = "EXECUTED"
    /\ \A p \in Procs : pc[p] # "c_update" /\ res[p] # "CANCELED"

\* C30 witness: a cancel of a committed order was answered with EXECUTED
C30_Witness ==
  /\ ~useMock
  /\ \E p \in Procs :
       /\ req[p].op = "cancel" /\ pc[p] = "done" /\ res[p] = "EXECUTED"
       /\ req[p].n \in DOMAIN orders

\* C31: the ledger reconciles with the log: in every reachable state the
\* cash of every account is its initial cash plus the amounts of its EXECUTED
\* DEPOSIT records, minus those of its WITHDRAW records, minus the totals of
\* its BUY records, plus the totals of its SELL records; CANCEL and REJECTED
\* records count for nothing.
C31_LedgerReconciles == \A u \in DOMAIN cash : cash[u] = CashCount(u)

(* ------------------- the pending pass, order by order ------------------- *)
\* the order at index i of the table `before` is one the pass of user u takes up
Pending(u, before, i) == before[i].userId = u /\ before[i].status = "PENDING"

\* total of the order o at the quote of the pass
PassTotal(o) == ToFixed2(o.shares * price[o.ticker], 1)

\* cash of user u when the pass that turns `before` into `after` reaches index i
RECURSIVE CashAtTurn(_, _, _, _)
CashAtTurn(u, before, after, i) ==
  IF i = 1 THEN cash[u]
  ELSE LET c == CashAtTurn(u, before, after, i - 1)
           o == before[i - 1]
       IN IF Pending(u, before, i - 1) /\ after[i - 1].status = "EXECUTED"
            THEN IF o.type = "BUY" THEN c - PassTotal(o) ELSE c + PassTotal(o)
            ELSE c

\* shares of ticker t held by user u when the pass reaches index i
RECURSIVE SharesAtTurn(_, _, _, _, _)
SharesAtTurn(u, t, before, after, i) ==
  IF i = 1 THEN HeldShares(u, t)
  ELSE LET k == SharesAtTurn(u, t, before, after, i - 1)
           o == before[i - 1]
       IN IF Pending(u, before, i - 1) /\ after[i - 1].status = "EXECUTED" /\ o.ticker = t
            THEN IF o.type = "BUY" THEN k + o.shares ELSE k - o.shares
            ELSE k

\* the order at index i has cover at its turn
CoveredAtTurn(u, before, after, i) ==
  IF before[i].type = "BUY"
    THEN CashAtTurn(u, before, after, i) >= PassTotal(before[i])
    ELSE SharesAtTurn(u, before[i].ticker, before, after, i) >= before[i].shares

\* the step is a pass of executePendingOrders for the existing user u
ExecutePass(u) ==
  /\ useMock
  /\ last' = Outcome("execute", u, 0, "OK")
  /\ UNCHANGED << price, now >>

\* C32: a pass of executePendingOrders(u) takes the PENDING orders of u in
\* the order they were placed and leaves none of them PENDING: each becomes
\* EXECUTED if at its turn the cash (BUY) or the held shares (SELL) suffice,
\* REJECTED otherwise, and nothing else of an order changes; the orders of
\* other users and the orders already terminal stay as they are.
C32_PendingPass ==
  [][ \A u \in UserIds :
        ExecutePass(u) =>
          /\ Len(orders') = Len(orders)
          /\ \A i \in DOMAIN orders :
               IF Pending(u, orders, i)
                 THEN orders'[i] =
                        [orders[i] EXCEPT !.status =
                           IF CoveredAtTurn(u, orders, orders', i) THEN "EXECUTED" ELSE "REJECTED"]
                 ELSE orders'[i] = orders[i] ]_vars

\* C32 witness: after a pass the first order, a buy, is REJECTED for lack of
\* cash and the second, a sell placed after it, is EXECUTED
C32_Witness ==
  /\ useMock
  /\ last = Outcome("execute", "u1001", 0, "OK")
  /\ Len(orders) = 2
  /\ orders[1].type = "BUY" /\ orders[1].status = "REJECTED"
  /\ orders[2].type = "SELL" /\ orders[2].status = "EXECUTED"

(* ------------------- orders against transaction records ----------------- *)
\* number of orders of user u, side type, ticker t, quantity q in status st
OrderCount(u, type, t, q, st) ==
  Cardinality({ i \in DOMAIN orders :
                  /\ orders[i].userId = u /\ orders[i].type \in type
                  /\ orders[i].ticker = t /\ orders[i].shares = q
                  /\ orders[i].status = st })

\* number of records of that user, type, ticker and quantity logged after the seed with status st
TxCount(u, type, t, q, st) ==
  Cardinality({ i \in (Len(mockTransactions) + 1)..Len(txs) :
                  /\ txs[i].userId = u /\ txs[i].type \in type
                  /\ txs[i].ticker = t /\ txs[i].shares = q
                  /\ txs[i].status = st })

\* for user u, ticker t and quantity q: as many EXECUTED records of the side
\* as EXECUTED orders of it, resp. as many CANCEL records as CANCELED orders
Corresponds(u, kind, t, q) ==
  IF kind = "CANCEL"
    THEN TxCount(u, {"CANCEL"}, t, q, "CANCELED") = OrderCount(u, {"BUY", "SELL"}, t, q, "CANCELED")
    ELSE TxCount(u, {kind}, t, q, "EXECUTED") = OrderCount(u, {kind}, t, q, "EXECUTED")

\* the step places an order in the pending model
PlacesOrder == useMock /\ Len(orders') > Len(orders)

\* C33: orders and transaction records correspond one to one: in every
\* reachable state, for the account, ticker and quantity of every EXECUTED or
\* CANCELED order and of every record logged after the seed, there are as many
\* EXECUTED BUY (SELL) records as EXECUTED buy (sell) orders and as many
\* CANCEL records as CANCELED orders, so that a PENDING order has no record;
\* placing an order in the pending model appends one PENDING order and
\* leaves cash, holdings and the transaction log unchanged.
C33_OrdersMatchLog ==
  /\ [](/\ \A i \in DOMAIN orders :
             LET o == orders[i] IN
               /\ o.status = "EXECUTED" => Corresponds(o.userId, o.type, o.ticker, o.shares)
               /\ o.status = "CANCELED" => Corresponds(o.userId, "CANCEL", o.ticker, o.shares)
        /\ \A k \in (Len(mockTransactions) + 1)..Len(txs) :
             LET x == txs[k] IN
               /\ (x.type \in {"BUY", "SELL"} /\ x.status = "EXECUTED") =>
                    Corresponds(x.userId, x.type, x.ticker, x.shares)
               /\ x.type = "CANCEL" => Corresponds(x.userId, "CANCEL", x.ticker, x.shares))
  /\ [][ PlacesOrder =>
           /\ orders' = Append(orders, orders'[Len(orders')])
           /\ orders'[Len(orders')].status = "PENDING"
           /\ UNCHANGED << cash, holdings, txs >> ]_vars

\* C33 witness: in the pending model one order was settled, another one
\* canceled, each with its record in the log
C33_Witness ==
  /\ useMock
  /\ \E i, j \in DOMAIN orders :
       /\ orders[i].status = "EXECUTED" /\ orders[j].status = "CANCELED"
       /\ \E k \in DOMAIN txs : txs[k].type = "CANCEL" /\ txs[k].shares = orders[j].shares
====
